---------------------------- MODULE Spec2Model ----------------------------
(***************************************************************************)
(* A model of flame_components.py: six flame-geometry functions over       *)
(* Python scalars and numpy arrays, each call wrapping its numeric inputs  *)
(* in numpy masked arrays (mask = isnan) and returning the raw .data.      *)
(*                                                                         *)
(* Numbers are fixed point, in thousandths: the float 3.5 is 3500.  A      *)
(* float constant of the source is the rational it is written as           *)
(* (2.23694 = 111847/50000), applied with MulDiv.  The transcendental      *)
(* functions are integer series accurate to a few thousandths.             *)
(***************************************************************************)
EXTENDS Integers, Sequences, FiniteSets, TLC

\* Longest ndarray a caller passes.
MaxLen == 2

-----------------------------------------------------------------------------
(* Fixed-point arithmetic *)

Abs(x) == IF x < 0 THEN -x ELSE x

Sign(x) == IF x < 0 THEN -1 ELSE IF x > 0 THEN 1 ELSE 0

\* x * n / d, rounded toward zero
MulDiv(x, n, d) == Sign(x) * Sign(n) * Sign(d) * ((Abs(x) * Abs(n)) \div Abs(d))

\* product and quotient of two fixed-point numbers
FMul(x, y) == MulDiv(x, y, 1000)

FDiv(x, y) == MulDiv(x, 1000, y)

RECURSIVE ISqrtFrom(_, _)
ISqrtFrom(n, r) == IF r * r <= n THEN r ELSE ISqrtFrom(n, (r + n \div r) \div 2)

\* floor of the integer square root (Newton's iteration from above)
ISqrt(n) == IF n <= 0 THEN 0 ELSE ISqrtFrom(n, IF n > 46340 THEN 46340 ELSE n)

\* numpy sqrt of a fixed-point number x >= 0
FSqrt(x) == ISqrt(x * 1000)

\* ln of m in [1, 2): 2 * atanh((m-1)/(m+1)), four terms, in 1/100000ths
LnMantissa(m) ==
    LET t  == ((m - 1000) * 100000) \div (m + 1000)
        t2 == (t * t) \div 100000
        t3 == (t * t2) \div 100000
        t5 == (t3 * t2) \div 100000
        t7 == (t5 * t2) \div 100000
    IN  (2 * (t + t3 \div 3 + t5 \div 5 + t7 \div 7) + 50) \div 100

RECURSIVE FLn(_)
\* numpy log of a fixed-point number x > 0 (693 is ln 2)
FLn(x) ==
    IF x >= 2000 THEN 693 + FLn(x \div 2)
    ELSE IF x < 1000 THEN FLn(2 * x) - 693
    ELSE LnMantissa(x)

\* e^r for 0 <= r < ln 2, in thousandths (series to the sixth power)
ExpSmall(r) ==
    LET u  == r * 1000
        u2 == (u * r) \div 2000
        u3 == (u2 * r) \div 3000
        u4 == (u3 * r) \div 4000
        u5 == (u4 * r) \div 5000
        u6 == (u5 * r) \div 6000
    IN  (1000000 + u + u2 + u3 + u4 + u5 + u6 + 500) \div 1000

RECURSIVE Pow2(_)
Pow2(k) == IF k = 0 THEN 1 ELSE 2 * Pow2(k - 1)

\* e^y of a fixed-point number (floor range reduction by ln 2)
FExp(y) ==
    LET k == y \div 693
        r == y - k * 693
    IN  IF k >= 0 THEN ExpSmall(r) * Pow2(k) ELSE ExpSmall(r) \div Pow2(-k)

\* numpy power(x, n/d) for x >= 0 and n/d > 0
FPow(x, n, d) == IF x = 0 THEN 0 ELSE FExp(MulDiv(FLn(x), n, d))

\* numpy radians and degrees (pi = 3.1416 = 3927/1250)
FRadians(d) == MulDiv(d, 3927, 225000)

FDegrees(r) == MulDiv(r, 225000, 3927)

\* pi / 2
HalfPi == MulDiv(1000, 3927, 2500)

\* sin of r in [-pi/2, pi/2]: Taylor series to the ninth power
SinSeries(r) ==
    LET r2 == FMul(r, r)
        t3 == FMul(r, r2) \div 6
        t5 == FMul(t3, r2) \div 20
        t7 == FMul(t5, r2) \div 42
        t9 == FMul(t7, r2) \div 72
    IN  r - t3 + t5 - t7 + t9

RECURSIVE FSin(_)
\* numpy sin of a fixed-point angle in radians
FSin(r) ==
    IF r > HalfPi THEN FSin(2 * HalfPi - r)
    ELSE IF r < -HalfPi THEN FSin(-2 * HalfPi - r)
    ELSE SinSeries(r)

\* arctan of x in [0, 0.25]: series to the ninth power
ArcTanSeries(x) ==
    LET x2 == FMul(x, x)
        t3 == FMul(x, x2)
        t5 == FMul(t3, x2)
        t7 == FMul(t5, x2)
        t9 == FMul(t7, x2)
    IN  x - t3 \div 3 + t5 \div 5 - t7 \div 7 + t9 \div 9

\* arctan x = 2 arctan(x / (1 + sqrt(1 + x^2)))
ArcTanHalve(x) == FDiv(x, 1000 + FSqrt(1000 + FMul(x, x)))

RECURSIVE FArcTan(_)
\* numpy arctan of a fixed-point number
FArcTan(x) ==
    IF x < 0 THEN -FArcTan(-x)
    ELSE IF x > 1000 THEN HalfPi - FArcTan(FDiv(1000, x))
    ELSE IF x > 250 THEN 2 * FArcTan(ArcTanHalve(x))
    ELSE ArcTanSeries(x)

\* numpy arcsin and arccos of x in [-1, 1]
FArcSin(x) ==
    IF x >= 1000 THEN HalfPi
    ELSE IF x <= -1000 THEN -HalfPi
    ELSE FArcTan(FDiv(x, FSqrt(1000 - FMul(x, x))))

FArcCos(x) == HalfPi - FArcSin(x)

-----------------------------------------------------------------------------
(* Python values.  Every value is a record of the same four fields:        *)
(*   k  the kind: "none", "num" (int or float scalar), "arr" (ndarray),    *)
(*      "str", "bool", "tuple"                                             *)
(*   dt the dtype of a scalar or array: "int", "float", "str"              *)
(*   e  the elements, each [v, nan]: a fixed-point value, or NaN           *)
(*   s  the text of a str (or of a 0-d str ndarray)                        *)

\* the sequence of a function on 1..n, every element evaluated once
Elems(f) == <<>> \o f

El(x) == [v |-> x, nan |-> FALSE]

NaNEl == [v |-> 0, nan |-> TRUE]

None == [k |-> "none", dt |-> "", e |-> <<>>, s |-> ""]

PyInt(n) == [k |-> "num", dt |-> "int", e |-> <<El(n * 1000)>>, s |-> ""]

PyFloat(x) == [k |-> "num", dt |-> "float", e |-> <<El(x)>>, s |-> ""]

PyNaN == [k |-> "num", dt |-> "float", e |-> <<NaNEl>>, s |-> ""]

PyStr(str) == [k |-> "str", dt |-> "", e |-> <<>>, s |-> str]

PyBool(b) == [k |-> "bool", dt |-> "", e |-> <<>>, s |-> IF b THEN "True" ELSE "False"]

NdArray(dt, elems) == [k |-> "arr", dt |-> dt, e |-> elems, s |-> ""]

\* a 0-d ndarray holding one str, numpy.array('degrees')
StrArray(str) == [k |-> "arr", dt |-> "str", e |-> <<>>, s |-> str]

IsNone(x) == x.k = "none"

IsNdArray(x) == x.k = "arr"

\* isinstance(x, (int, float, ndarray))
IsNumeric(x) == x.k \in {"num", "arr"}

\* isinstance(x, (int, float, ndarray, type(None)))
IsNumericOrNone(x) == IsNumeric(x) \/ IsNone(x)

\* numpy.isnan raises TypeError on [None] and on a str array
IsNanRaises(x) == IsNone(x) \/ x.k = "str" \/ (x.k = "arr" /\ x.dt = "str")

-----------------------------------------------------------------------------
(* numpy.ma masked arrays: elements [v, nan, m], m the mask.  Where the    *)
(* result of an operation is masked, numpy.ma leaves the data of the       *)
(* first operand in the result's data.                                     *)

\* ma.array(x, mask=isnan(x)) and ma.array([x], mask=isnan([x]))
MaskedOf(x) ==
    [dt |-> x.dt,
     e  |-> Elems([i \in 1..Len(x.e) |-> [v |-> x.e[i].v, nan |-> x.e[i].nan, m |-> x.e[i].nan]])]

\* a Python float as an operand
Scalar(x) == [dt |-> "float", e |-> <<[v |-> x, nan |-> FALSE, m |-> FALSE]>>]

\* broadcasting: a one-element array stretches to the other's length
BLen(a, b) == IF Len(a.e) >= Len(b.e) THEN Len(a.e) ELSE Len(b.e)

At(a, i) == a.e[IF Len(a.e) = 1 THEN 1 ELSE i]

Keep(x) == [v |-> x.v, nan |-> x.nan, m |-> TRUE]

Val(x) == [v |-> x, nan |-> FALSE, m |-> FALSE]

\* the element-wise operations, as functions of the data
add == [x \in Int, y \in Int |-> x + y]

subtract == [x \in Int, y \in Int |-> x - y]

multiply == [x \in Int, y \in Int |-> FMul(x, y)]

log == [x \in Int |-> FLn(x)]

sqrt == [x \in Int |-> FSqrt(x)]

sin == [x \in Int |-> FSin(x)]

arctan == [x \in Int |-> FArcTan(x)]

arcsin == [x \in Int |-> FArcSin(x)]

arccos == [x \in Int |-> FArcCos(x)]

radians == [x \in Int |-> FRadians(x)]

degrees == [x \in Int |-> FDegrees(x)]

\* _MaskedBinaryOperation (add, subtract, multiply): two int arrays give an
\* int array
MBin(op, a, b) ==
    [dt |-> IF a.dt = "int" /\ b.dt = "int" THEN "int" ELSE "float",
     e  |-> Elems([i \in 1..BLen(a, b) |->
                IF At(a, i).m \/ At(b, i).m THEN Keep(At(a, i))
                ELSE Val(op[At(a, i).v, At(b, i).v])])]

\* _DomainedBinaryOperation (true_divide): a zero divisor is masked
MDivide(a, b) ==
    [dt |-> "float",
     e  |-> Elems([i \in 1..BLen(a, b) |->
                IF At(a, i).m \/ At(b, i).m \/ At(b, i).v = 0 THEN Keep(At(a, i))
                ELSE Val(FDiv(At(a, i).v, At(b, i).v))])]

\* _MaskedUnaryOperation with a domain (log, sqrt, arccos, arcsin)
MUnaryDom(op, domain, a) ==
    [dt |-> "float",
     e  |-> Elems([i \in 1..Len(a.e) |->
                IF a.e[i].m \/ ~domain[a.e[i].v] THEN Keep(a.e[i])
                ELSE Val(op[a.e[i].v])])]

\* _MaskedUnaryOperation without a domain (sin, arctan)
MUnary(op, a) == MUnaryDom(op, [x \in Int |-> TRUE], a)

\* a numpy ufunc (radians, degrees) on a masked array: the data of every
\* element is computed, the mask is kept
NpUnary(op, a) ==
    [dt |-> "float",
     e  |-> Elems([i \in 1..Len(a.e) |->
                [v |-> IF a.e[i].nan THEN 0 ELSE op[a.e[i].v], nan |-> a.e[i].nan, m |-> a.e[i].m]])]

\* multiplication and division by a float constant n/d
MTimes(a, n, d) == MBin([x \in Int, y \in Int |-> MulDiv(x, n, d)], a, Scalar(0))

\* numpy.ma's default fill value for floats, 1e20, as the largest number here
FillValue == 2000 * 1000 * 1000

\* ma.power(a, n/d) for n/d > 0: a result that is not finite (NaN data, a
\* negative base) is masked and its data set to the fill value
MPower(a, n, d) ==
    [dt |-> "float",
     e  |-> Elems([i \in 1..Len(a.e) |->
                IF a.e[i].nan \/ (~a.e[i].m /\ a.e[i].v < 0)
                THEN [v |-> FillValue, nan |-> FALSE, m |-> TRUE]
                ELSE IF a.e[i].m THEN a.e[i]
                ELSE Val(FPow(a.e[i].v, n, d))])]

\* a comparison with a masked array: [b, m], b the comparison of the data
\* (False against NaN)
MCompare(op, a, b) ==
    Elems([i \in 1..BLen(a, b) |->
        [b |-> ~At(a, i).nan /\ ~At(b, i).nan /\ op[At(a, i).v, At(b, i).v],
         m |-> At(a, i).m \/ At(b, i).m]])

\* ma.where(c, x, y): a masked condition picks y's data and is masked
MWhere(c, x, y) ==
    [dt |-> "float",
     e  |-> Elems([i \in 1..Len(c) |->
                LET pick == IF c[i].b /\ ~c[i].m THEN At(x, i) ELSE At(y, i)
                IN  [v |-> pick.v, nan |-> pick.nan, m |-> pick.m \/ c[i].m]])]

\* x[x < 0] = 0: every element whose data is below zero is set and unmasked
ClampNonNeg(a) ==
    [dt |-> a.dt,
     e  |-> Elems([i \in 1..Len(a.e) |->
                IF ~a.e[i].nan /\ a.e[i].v < 0 THEN Val(0) ELSE a.e[i]])]

\* .data of a masked array
DataOf(a) == Elems([i \in 1..Len(a.e) |-> [v |-> a.e[i].v, nan |-> a.e[i].nan]])

\* "return x.data if return_array else x.data[0]"
Returned(a, return_array) ==
    IF return_array THEN NdArray(a.dt, DataOf(a))
    ELSE [k |-> "num", dt |-> a.dt, e |-> <<DataOf(a)[1]>>, s |-> ""]

-----------------------------------------------------------------------------
(* The end of a call: what it returned or raised, at which source line,    *)
(* the arithmetic steps it had executed by then, and the caller's          *)
(* arguments as the call left them.                                        *)

Raise(kind, line, steps, out) ==
    [kind |-> kind, line |-> line, val |-> None, steps |-> steps, out |-> out]

Return(val, line, steps, out) ==
    [kind |-> "return", line |-> line, val |-> val, steps |-> steps, out |-> out]

\* a /= n/d on a float masked array: data of masked elements is left alone
MInPlaceDivide(a, n, d) ==
    [dt |-> a.dt,
     e  |-> Elems([i \in 1..Len(a.e) |->
                IF a.e[i].m THEN a.e[i] ELSE Val(MulDiv(a.e[i].v, d, n))])]

\* a *= n/d on a float masked array
MInPlaceTimes(a, n, d) ==
    [dt |-> a.dt,
     e  |-> Elems([i \in 1..Len(a.e) |->
                IF a.e[i].m THEN a.e[i] ELSE Val(MulDiv(a.e[i].v, n, d))])]

-----------------------------------------------------------------------------
(* getFlameDepth(ros, res_time) *)

\* the product without the floor at 0
FlameDepthUnclamped(ros, res_time) == MBin(multiply, MaskedOf(ros), MaskedOf(res_time))

\* fd = ros * res_time; fd[fd < 0] = 0
FlameDepthValue(ros, res_time) ==
    ClampNonNeg(MBin(multiply, MaskedOf(ros), MaskedOf(res_time)))

getFlameDepth(a) ==
    LET return_array == IsNdArray(a.ros) \/ IsNdArray(a.res_time)
    IN  IF ~IsNumeric(a.ros) THEN Raise("TypeError", 611, <<>>, a)
        ELSE IF IsNanRaises(a.ros) THEN Raise("TypeError", 613, <<>>, a)
        ELSE IF ~IsNumeric(a.res_time) THEN Raise("TypeError", 619, <<>>, a)
        ELSE IF IsNanRaises(a.res_time) THEN Raise("TypeError", 621, <<>>, a)
        ELSE Return(Returned(FlameDepthValue(a.ros, a.res_time), return_array),
                    IF return_array THEN 633 ELSE 635, <<"fd = ros * res_time">>, a)

-----------------------------------------------------------------------------
(* getFlameResidenceTime(ros, fuel_consumption, midflame_ws, units) *)

\* (0.39 * power(fuel_consumption, 0.25) * power(midflame_ws, 1.51)) / (ros / 60)
ResidenceTimeFormula(ros, fuel_consumption, midflame_ws) ==
    MDivide(MBin(multiply, MBin(multiply, Scalar(390), MPower(fuel_consumption, 1, 4)),
                 MPower(midflame_ws, 151, 100)),
            MDivide(ros, Scalar(60000)))

\* the units parameter is only ever compared with 'min'
ResidenceTimeValue(ros, fuel_consumption, midflame_ws, units) ==
    LET res_time == ResidenceTimeFormula(MaskedOf(ros), MaskedOf(fuel_consumption),
                                         MaskedOf(midflame_ws))
    IN  ClampNonNeg(IF units = PyStr("min") THEN MInPlaceDivide(res_time, 60, 1)
                    ELSE res_time)

getFlameResidenceTime(a) ==
    LET return_array ==
            IsNdArray(a.ros) \/ IsNdArray(a.fuel_consumption) \/ IsNdArray(a.midflame_ws)
        steps == <<"res_time = formula">>
                 \o (IF a.units = PyStr("min") THEN <<"res_time /= 60">> ELSE <<>>)
    IN  IF ~IsNumeric(a.ros) THEN Raise("TypeError", 555, <<>>, a)
        ELSE IF IsNanRaises(a.ros) THEN Raise("TypeError", 557, <<>>, a)
        ELSE IF ~IsNumeric(a.fuel_consumption) THEN Raise("TypeError", 563, <<>>, a)
        ELSE IF IsNanRaises(a.fuel_consumption) THEN Raise("TypeError", 565, <<>>, a)
        ELSE IF ~IsNumeric(a.midflame_ws) THEN Raise("TypeError", 571, <<>>, a)
        ELSE IF IsNanRaises(a.midflame_ws) THEN Raise("TypeError", 573, <<>>, a)
        ELSE Return(Returned(ResidenceTimeValue(a.ros, a.fuel_consumption,
                                                a.midflame_ws, a.units), return_array),
                    IF return_array THEN 587 ELSE 589, steps, a)

-----------------------------------------------------------------------------
(* getMidFlameWS(wind_speed, canopy_cover, canopy_ht, canopy_baseht, units) *)

\* ma.array(x, mask=isnan(x)) of an ndarray shares the caller's buffer
\* (copy=False): what an in-place operator writes, the caller's array holds.
\* A scalar is wrapped in a fresh list, which the caller never sees.
WrittenBack(x, masked) == IF IsNdArray(x) THEN NdArray(x.dt, DataOf(masked)) ELSE x

\* an in-place true division or float multiplication of an int array raises
\* numpy's UFuncTypeError (a TypeError): float64 does not cast to int64
InPlaceRaises(masked) == masked.dt = "int"

\* a conversion that takes km/h to m/s and leaves the measurement height alone
WindToMpsSameHeight(units, wind_speed) ==
    IF units = "SI" THEN MInPlaceDivide(wind_speed, 18, 5)
    ELSE MInPlaceDivide(wind_speed, 111847, 50000)

\* the wind speed in m/s: "wind_speed /= (3.6 * 1.15)" takes a 10-m wind in
\* km/h to its 20-ft equivalent in m/s, "wind_speed /= 2.23694" takes a
\* 20-ft wind in mi/h to m/s
WindToMps(units, wind_speed) ==
    IF units = "SI" THEN MInPlaceDivide(wind_speed, 207, 50)
    ELSE MInPlaceDivide(wind_speed, 111847, 50000)

\* "canopy_ht *= 3.28084", "canopy_baseht *= 3.28084"
MetresToFeet(height) == MInPlaceTimes(height, 82021, 25000)

\* "Convert input units": the in-place operators of lines 85-90, in order,
\* up to the first that raises (raised: its line, or 0)
ConvertUnits(units, wind_speed, canopy_ht, canopy_baseht) ==
    LET C(ws, ht, cbh, raised, steps) ==
            [wind_speed |-> ws, canopy_ht |-> ht, canopy_baseht |-> cbh,
             raised |-> raised, steps |-> steps]
        ws == WindToMps(units, wind_speed)
        ht == MetresToFeet(canopy_ht)
    IN  IF units = "SI" THEN
            IF InPlaceRaises(wind_speed)
            THEN C(wind_speed, canopy_ht, canopy_baseht, 86, <<>>)
            ELSE IF InPlaceRaises(canopy_ht)
            THEN C(ws, canopy_ht, canopy_baseht, 87, <<"wind_speed /= 3.6 * 1.15">>)
            ELSE IF InPlaceRaises(canopy_baseht)
            THEN C(ws, ht, canopy_baseht, 88,
                   <<"wind_speed /= 3.6 * 1.15", "canopy_ht *= 3.28084">>)
            ELSE C(ws, ht, MetresToFeet(canopy_baseht), 0,
                   <<"wind_speed /= 3.6 * 1.15", "canopy_ht *= 3.28084",
                     "canopy_baseht *= 3.28084">>)
        ELSE \* units = "IMP"
            IF InPlaceRaises(wind_speed)
            THEN C(wind_speed, canopy_ht, canopy_baseht, 90, <<>>)
            ELSE C(ws, canopy_ht, canopy_baseht, 0, <<"wind_speed /= 2.23694">>)

\* a sheltering factor ten times too large: crown_ratio * canopy_cover / 30
ShelterFactorOverThirty(canopy_cover, canopy_ht, canopy_baseht) ==
    MDivide(MBin(multiply, MDivide(MBin(subtract, canopy_ht, canopy_baseht), canopy_ht),
                 canopy_cover),
            Scalar(30000))

\* crown_ratio * canopy_cover / 300, crown_ratio = (canopy_ht - canopy_baseht) / canopy_ht
ShelterFactor(canopy_cover, canopy_ht, canopy_baseht) ==
    MDivide(MBin(multiply, MDivide(MBin(subtract, canopy_ht, canopy_baseht),
                               canopy_ht),
                 canopy_cover),
            Scalar(300000))

\* ma.where(canopy_ht == 0, 0.5 * 3.28084, canopy_ht)
FloorHeight(canopy_ht) ==
    MWhere(MCompare([x \in Int, y \in Int |-> x = y], canopy_ht, Scalar(0)),
           Scalar(1640), canopy_ht)

\* log((20 + (0.36 * canopy_ht)) / (0.13 * canopy_ht))
LogTerm(canopy_ht) ==
    MUnaryDom(log, [x \in Int |-> x > 0],
              MDivide(MBin(add, Scalar(20000),
                           MBin([x \in Int, y \in Int |-> MulDiv(y, 9, 25)],
                                Scalar(360), canopy_ht)),
                      MBin([x \in Int, y \in Int |-> MulDiv(y, 13, 100)], Scalar(130), canopy_ht)))

\* wind_speed * 1.83 / log(...)
Unsheltered(wind_speed, canopy_ht) ==
    MDivide(MTimes(wind_speed, 183, 100), LogTerm(canopy_ht))

\* wind_speed * 0.555 / (sqrt(f * canopy_ht) * log(...))
Sheltered(wind_speed, f, canopy_ht) ==
    MDivide(MTimes(wind_speed, 111, 200),
            MBin(multiply, MUnaryDom(sqrt, [x \in Int |-> x >= 0], MBin(multiply, f, canopy_ht)),
                 LogTerm(canopy_ht)))

\* f <= 5
UsesUnsheltered(f) == MCompare([x \in Int, y \in Int |-> x <= y], f, Scalar(5000))

\* lines 91-108, on the converted masked arrays
MidFlameFormula(wind_speed, canopy_cover, canopy_ht, canopy_baseht) ==
    LET f  == ShelterFactor(canopy_cover, canopy_ht, canopy_baseht)
        ht == FloorHeight(canopy_ht)
    IN  ClampNonNeg(MWhere(UsesUnsheltered(f), Unsheltered(wind_speed, ht),
                           Sheltered(wind_speed, f, ht)))

getMidFlameWS(a) ==
    LET return_array == \E p \in {"wind_speed", "canopy_cover", "canopy_ht",
                                  "canopy_baseht"} : IsNdArray(a[p])
    IN  IF ~IsNumeric(a.wind_speed) THEN Raise("TypeError", 48, <<>>, a)
        ELSE IF IsNanRaises(a.wind_speed) THEN Raise("TypeError", 50, <<>>, a)
        ELSE IF ~IsNumeric(a.canopy_cover) THEN Raise("TypeError", 56, <<>>, a)
        ELSE IF IsNanRaises(a.canopy_cover) THEN Raise("TypeError", 58, <<>>, a)
        ELSE IF ~IsNumeric(a.canopy_ht) THEN Raise("TypeError", 64, <<>>, a)
        ELSE IF IsNanRaises(a.canopy_ht) THEN Raise("TypeError", 66, <<>>, a)
        ELSE IF ~IsNumeric(a.canopy_baseht) THEN Raise("TypeError", 72, <<>>, a)
        ELSE IF IsNanRaises(a.canopy_baseht) THEN Raise("TypeError", 74, <<>>, a)
        ELSE IF a.units.k # "str" THEN Raise("TypeError", 80, <<>>, a)
        ELSE IF a.units.s \notin {"SI", "IMP"} THEN Raise("ValueError", 82, <<>>, a)
        ELSE
            LET c   == ConvertUnits(a.units.s, MaskedOf(a.wind_speed),
                                    MaskedOf(a.canopy_ht), MaskedOf(a.canopy_baseht))
                out == [a EXCEPT !.wind_speed = WrittenBack(@, c.wind_speed),
                                 !.canopy_ht = WrittenBack(@, c.canopy_ht),
                                 !.canopy_baseht = WrittenBack(@, c.canopy_baseht)]
            IN  IF c.raised # 0 THEN Raise("TypeError", c.raised, c.steps, out)
                ELSE Return(Returned(MidFlameFormula(c.wind_speed, MaskedOf(a.canopy_cover),
                                                     c.canopy_ht, c.canopy_baseht),
                                     return_array),
                            IF return_array THEN 111 ELSE 113,
                            c.steps \o <<"midflame_ws = formula">>, out)

-----------------------------------------------------------------------------
(* getFlameLength(model, fire_intensity, flame_depth, params_only) *)

\* the catalog without its 'Davies_HEAD' entry
model_dict_without_davies ==
    "Fons_NOWIND" :> <<24018, 666667>> @@
    "Thomas_NOWIND" :> <<26700, 666667>> @@
    "Yuana_NOWIND" :> <<34000, 666667>> @@
    "Barbon_iNOWIND" :> <<62000, 533600>> @@
    "Nelson_BACK" :> <<27973, 666667>> @@
    "Fernandes_BACK" :> <<29000, 724000>> @@
    "Clark_BACK" :> <<1600, 1745000>> @@
    "Vega_BACK" :> <<87000, 493000>> @@
    "Byram_HEAD" :> <<77500, 460000>> @@
    "Anderson1_HEAD" :> <<13876, 651000>> @@
    "Anderson2_HEAD" :> <<8800, 670000>> @@
    "Newman_HEAD" :> <<57700, 500000>> @@
    "Sneewujagt_HEAD" :> <<37680, 500000>> @@
    "Nelson1_HEAD" :> <<44230, 500000>> @@
    "Clark_HEAD" :> <<722, 993400>> @@
    "Nelson2_HEAD" :> <<47500, 493000>> @@
    "VanWilgen_HEAD" :> <<46000, 412800>> @@
    "Burrows_HEAD" :> <<40480, 574000>> @@
    "MarsdenSmedley_HEAD" :> <<148000, 403000>> @@
    "Weise1_HEAD" :> <<16000, 700000>> @@
    "Catchpole_HEAD" :> <<32500, 560000>> @@
    "Fernandes1_HEAD" :> <<51600, 453000>> @@
    "Butler_HEAD" :> <<17500, 666667>> @@
    "Fernandes_HEAD" :> <<45000, 543000>> @@
    "Nelson3_HEAD" :> <<14200, 666667>> @@
    "Nelson4_HEAD" :> <<15500, 666667>> @@
    "Weise2_HEAD" :> <<200000, 340000>> @@
    "Finney_HEAD" :> <<10510, 774000, 161000>>

\* The catalog (a, b[, c]) of each model, in millionths
model_dict ==
    "Fons_NOWIND" :> <<24018, 666667>> @@
    "Thomas_NOWIND" :> <<26700, 666667>> @@
    "Yuana_NOWIND" :> <<34000, 666667>> @@
    "Barbon_iNOWIND" :> <<62000, 533600>> @@
    "Nelson_BACK" :> <<27973, 666667>> @@
    "Fernandes_BACK" :> <<29000, 724000>> @@
    "Clark_BACK" :> <<1600, 1745000>> @@
    "Vega_BACK" :> <<87000, 493000>> @@
    "Byram_HEAD" :> <<77500, 460000>> @@
    "Anderson1_HEAD" :> <<13876, 651000>> @@
    "Anderson2_HEAD" :> <<8800, 670000>> @@
    "Newman_HEAD" :> <<57700, 500000>> @@
    "Sneewujagt_HEAD" :> <<37680, 500000>> @@
    "Nelson1_HEAD" :> <<44230, 500000>> @@
    "Clark_HEAD" :> <<722, 993400>> @@
    "Nelson2_HEAD" :> <<47500, 493000>> @@
    "VanWilgen_HEAD" :> <<46000, 412800>> @@
    "Burrows_HEAD" :> <<40480, 574000>> @@
    "MarsdenSmedley_HEAD" :> <<148000, 403000>> @@
    "Weise1_HEAD" :> <<16000, 700000>> @@
    "Catchpole_HEAD" :> <<32500, 560000>> @@
    "Fernandes1_HEAD" :> <<51600, 453000>> @@
    "Butler_HEAD" :> <<17500, 666667>> @@
    "Fernandes_HEAD" :> <<45000, 543000>> @@
    "Nelson3_HEAD" :> <<14200, 666667>> @@
    "Nelson4_HEAD" :> <<15500, 666667>> @@
    "Weise2_HEAD" :> <<200000, 340000>> @@
    "Davies_HEAD" :> <<220000, 290000>> @@
    "Finney_HEAD" :> <<10510, 774000, 161000>>

\* x * c for a constant c in millionths
MulMicro(x, c) == MulDiv(x, c \div 1000, 1000) + MulDiv(x, c % 1000, 1000000)

\* ma.power(a, c), c a catalog exponent in millionths
MPowerMicro(a, c) ==
    [dt |-> "float",
     e  |-> Elems([i \in 1..Len(a.e) |->
                IF a.e[i].nan \/ (~a.e[i].m /\ a.e[i].v < 0)
                THEN [v |-> FillValue, nan |-> FALSE, m |-> TRUE]
                ELSE IF a.e[i].m THEN a.e[i]
                ELSE Val(IF a.e[i].v = 0 THEN 0 ELSE FExp(MulMicro(FLn(a.e[i].v), c)))])]

\* "model in list[model_dict.keys()]": the subscripted type list[...] is a
\* types.GenericAlias, not the list of keys.  Where the interpreter iterates
\* an alias (Python 3.11 on) the test compares model with the alias's one
\* item, an unpacked alias, which no str equals; before that the alias is
\* not iterable and the test raises TypeError.
ModelListed(model, alias_iterable) == IF alias_iterable THEN "False" ELSE "TypeError"

\* model_dict.get(model), as the tuple returned under params_only
ModelParams(model) ==
    [k |-> "tuple", dt |-> "float",
     e |-> Elems([i \in 1..Len(model_dict[model]) |-> El(model_dict[model][i])]), s |-> ""]

\* lines 207-215
FlameLengthFormula(model, fire_intensity, flame_depth) ==
    LET p    == model_dict[model]
        head == MBin([x \in Int, y \in Int |-> MulMicro(y, p[1])], Scalar(p[1] \div 1000),
                     MPowerMicro(fire_intensity, p[2]))
    IN  ClampNonNeg(IF model = "Finney_HEAD"
                    THEN MDivide(head, MPowerMicro(flame_depth, p[3]))
                    ELSE head)

getFlameLength(a, alias_iterable) ==
    LET return_array == IsNdArray(a.fire_intensity) \/ IsNdArray(a.flame_depth)
    IN  IF a.model.k # "str" THEN Raise("TypeError", 177, <<>>, a)
        ELSE IF ModelListed(a.model.s, alias_iterable) = "TypeError"
             THEN Raise("TypeError", 178, <<>>, a)
        ELSE IF ModelListed(a.model.s, alias_iterable) = "False"
             THEN Raise("ValueError", 179, <<>>, a)
        ELSE IF ~IsNumeric(a.fire_intensity) THEN Raise("TypeError", 183, <<>>, a)
        ELSE IF IsNanRaises(a.fire_intensity) THEN Raise("TypeError", 185, <<>>, a)
        ELSE IF ~IsNumericOrNone(a.flame_depth) THEN Raise("TypeError", 191, <<>>, a)
        ELSE IF IsNanRaises(a.flame_depth)
             THEN Raise("TypeError", IF IsNdArray(a.flame_depth) THEN 193 ELSE 195, <<>>, a)
        ELSE IF a.params_only.k # "bool" THEN Raise("TypeError", 199, <<>>, a)
        ELSE IF a.params_only = PyBool(TRUE) THEN Return(ModelParams(a.model.s), 205, <<>>, a)
        ELSE Return(Returned(FlameLengthFormula(a.model.s, MaskedOf(a.fire_intensity),
                                                MaskedOf(a.flame_depth)), return_array),
                    IF return_array THEN 218 ELSE 220, <<"fl = formula">>, a)

-----------------------------------------------------------------------------
(* getFlameHeight(model, flame_length, fire_type, fire_intensity,          *)
(*                midflame_ws, flame_tilt, slope_angle, slope_units)       *)

\* fire_type_dict.get(fire_type): a str fire type becomes its integer code
FireTypeCode(fire_type) ==
    IF fire_type.k # "str" THEN fire_type
    ELSE PyInt(CASE fire_type.s = "surface" -> 1
                 [] fire_type.s = "passive crown" -> 2
                 [] OTHER -> 3)

\* "units not in [...]" after isinstance(units, (int, float, ndarray,
\* type(None))): of the values that pass the isinstance test only a 0-d str
\* ndarray equals a member of the list; a str itself never gets here
UnitsListed(units, allowed) == units.k = "arr" /\ units.dt = "str" /\ units.s \in allowed

\* the wrapping of one optional numeric argument (isinstance, then ma.array):
\* the line that raises TypeError, or 0.  None passes isinstance and fails
\* in isnan([None]).
WrapRaises(x, line) ==
    IF ~IsNumericOrNone(x) THEN line
    ELSE IF IsNdArray(x) THEN (IF IsNanRaises(x) THEN line + 2 ELSE 0)
    ELSE IF IsNanRaises(x) THEN line + 4
    ELSE 0

\* ma.where(ma.isin(fire_type, [1, 2]), 1 / 360, 0.0175), in millionths
FireParameter(fire_type) ==
    [dt |-> "float",
     e  |-> Elems([i \in 1..Len(fire_type.e) |->
                [v |-> IF ~fire_type.e[i].m /\ fire_type.e[i].v \in {1000, 2000}
                       THEN 2778 ELSE 17500,
                 nan |-> FALSE, m |-> fire_type.e[i].m]])]

\* a * fire_intensity, a in millionths
FireParameterTimes(a, fire_intensity) ==
    [dt |-> "float",
     e  |-> Elems([i \in 1..BLen(a, fire_intensity) |->
                IF At(a, i).m \/ At(fire_intensity, i).m
                THEN [v |-> At(a, i).v \div 1000, nan |-> FALSE, m |-> TRUE]
                ELSE Val(MulMicro(At(fire_intensity, i).v, At(a, i).v))])]

\* lines 336-351
NelsonHeight(flame_length, fire_type, fire_intensity, midflame_ws) ==
    LET height == MWhere(MCompare([x \in Int, y \in Int |-> x = y], midflame_ws, Scalar(0)),
                         flame_length,
                         MDivide(FireParameterTimes(FireParameter(fire_type),
                                                    fire_intensity), midflame_ws))
    IN  MWhere(MCompare([x \in Int, y \in Int |-> x > y], height, flame_length),
               flame_length, height)

\* "Convert slope to radians"
SlopeRadians(slope_angle, slope_units) ==
    IF slope_units = "percent" THEN MUnary(arctan, MDivide(slope_angle, Scalar(100000)))
    ELSE NpUnary(radians, slope_angle)

\* lines 362-368
FinneyHeight(flame_length, flame_tilt, slope_angle, slope_units) ==
    LET slope_rad == SlopeRadians(slope_angle, slope_units)
        tilt_h    == MBin(subtract, Scalar(HalfPi), NpUnary(radians, flame_tilt))
    IN  MWhere(MCompare([x \in Int, y \in Int |-> x <= y], slope_angle, Scalar(1000)),
               MBin(multiply, flame_length, MUnary(sin, tilt_h)),
               MDivide(MBin(multiply, flame_length,
                            MUnary(sin, MBin(subtract, tilt_h, slope_rad))),
                       MUnary(sin, MBin(subtract, Scalar(HalfPi), slope_rad))))

\* the checks of lines 261-333: [kind, line] of the error raised, or line 0
FlameHeightChecks(a) ==
    LET nelson == {a.fire_type, a.fire_intensity, a.midflame_ws}
        finney == {a.flame_tilt, a.slope_angle, a.slope_units}
        E(kind, line) == [kind |-> kind, line |-> line]
    IN  IF a.model.k # "str" THEN E("TypeError", 263)
        ELSE IF a.model.s \notin {"Nelson", "Finney"} THEN E("ValueError", 265)
        ELSE IF a.model.s = "Nelson" /\ (\E x \in nelson : IsNone(x)) THEN E("ValueError", 270)
        ELSE IF a.model.s = "Finney" /\ ~(\E x \in finney : IsNone(x)) THEN E("ValueError", 273)
        ELSE IF ~IsNumeric(a.flame_length) THEN E("TypeError", 277)
        ELSE IF IsNanRaises(a.flame_length) THEN E("TypeError", 279)
        ELSE IF ~(a.fire_type.k = "str" \/ IsNumericOrNone(a.fire_type)) THEN E("TypeError", 285)
        ELSE IF a.fire_type.k = "str"
                /\ a.fire_type.s \notin {"surface", "passive crown", "active crown"}
             THEN E("ValueError", 288)
        ELSE IF IsNanRaises(FireTypeCode(a.fire_type))
             THEN E("TypeError", IF IsNdArray(a.fire_type) THEN 293 ELSE 295)
        ELSE IF WrapRaises(a.fire_intensity, 299) # 0
             THEN E("TypeError", WrapRaises(a.fire_intensity, 299))
        ELSE IF WrapRaises(a.midflame_ws, 307) # 0
             THEN E("TypeError", WrapRaises(a.midflame_ws, 307))
        ELSE IF WrapRaises(a.flame_tilt, 315) # 0
             THEN E("TypeError", WrapRaises(a.flame_tilt, 315))
        ELSE IF WrapRaises(a.slope_angle, 323) # 0
             THEN E("TypeError", WrapRaises(a.slope_angle, 323))
        ELSE IF ~IsNumericOrNone(a.slope_units) THEN E("TypeError", 331)
        ELSE IF ~UnitsListed(a.slope_units, {"degrees", "percent"}) THEN E("ValueError", 333)
        ELSE E("", 0)

getFlameHeight(a) ==
    LET return_array == \E p \in {"flame_length", "fire_type", "fire_intensity", "midflame_ws",
                                  "flame_tilt", "slope_angle", "slope_units"} : IsNdArray(a[p])
        err    == FlameHeightChecks(a)
        height == IF a.model.s = "Nelson"
                  THEN NelsonHeight(MaskedOf(a.flame_length),
                                    MaskedOf(FireTypeCode(a.fire_type)),
                                    MaskedOf(a.fire_intensity), MaskedOf(a.midflame_ws))
                  ELSE FinneyHeight(MaskedOf(a.flame_length), MaskedOf(a.flame_tilt),
                                    MaskedOf(a.slope_angle), a.slope_units.s)
    IN  IF err.line # 0 THEN Raise(err.kind, err.line, <<>>, a)
        ELSE Return(Returned(ClampNonNeg(height), return_array),
                    IF return_array THEN 374 ELSE 376, <<"height = formula">>, a)

-----------------------------------------------------------------------------
(* getFlameTilt(model, flame_length, flame_height, slope_angle,            *)
(*              slope_units, wind_speed, wind_speed_units, canopy_ht)      *)

\* arccos(flame_height / flame_length)
StandardTilt(flame_length, flame_height) ==
    MUnaryDom(arccos, [x \in Int |-> Abs(x) <= 1000], MDivide(flame_height, flame_length))

\* lines 486-500
FinneyTilt(flame_length, flame_height, slope_angle, slope_units) ==
    LET slope_rad == SlopeRadians(slope_angle, slope_units)
        level     == MUnary(sin, MBin(subtract, Scalar(HalfPi), slope_rad))
        tilt_h    == MBin(add,
                          MUnaryDom(arcsin, [x \in Int |-> Abs(x) <= 1000],
                                    NpUnary(radians,
                                            MDivide(MBin(multiply, flame_height,
                                                         NpUnary(degrees, level)),
                                                    flame_length))),
                          slope_rad)
    IN  MWhere(MCompare([x \in Int, y \in Int |-> x = y], flame_height, flame_length),
               Scalar(0), MBin(subtract, Scalar(HalfPi), tilt_h))

\* "Convert wind speed units if necessary"
ButlerWindSpeed(wind_speed, wind_speed_units) ==
    IF wind_speed_units = "kph" THEN MDivide(wind_speed, Scalar(3600))
    ELSE IF wind_speed_units = "mph" THEN MTimes(wind_speed, 50000, 111847)
    ELSE wind_speed

\* lines 514-521, canopy_ht a number
ButlerTilt(wind_speed, canopy_ht) ==
    LET uc == MDivide(wind_speed,
                      MBin([x \in Int, y \in Int |-> MulDiv(y, 18, 5)], Scalar(3600),
                           MBin(add, Scalar(1000),
                                MUnaryDom(log, [x \in Int |-> x > 0],
                                          MBin(add, Scalar(1000),
                                               MDivide(Scalar(28000), canopy_ht))))))
        cube == MBin(multiply, MBin(multiply, uc, uc), uc)
    IN  MUnary(arctan, MUnaryDom(sqrt, [x \in Int |-> x >= 0], MTimes(cube, 3000, 196200)))

\* the checks of lines 420-480: [kind, line] of the error raised, or line 0
FlameTiltChecks(a) ==
    LET standard == {a.flame_length, a.flame_height}
        finney   == {a.flame_length, a.flame_height, a.slope_angle, a.slope_units}
        butler   == {a.wind_speed, a.wind_speed_units, a.canopy_ht}
        E(kind, line) == [kind |-> kind, line |-> line]
    IN  IF a.model.k # "str" THEN E("TypeError", 422)
        ELSE IF a.model.s \notin {"Standard", "Finney", "Butler"} THEN E("ValueError", 424)
        ELSE IF a.model.s = "Standard" /\ (\E x \in standard : IsNone(x))
             THEN E("ValueError", 429)
        ELSE IF a.model.s = "Finney" /\ ~(\E x \in finney : IsNone(x))
             THEN E("ValueError", 432)
        ELSE IF a.model.s = "Butler" /\ ~(\E x \in butler : IsNone(x))
             THEN E("ValueError", 436)
        ELSE IF WrapRaises(a.flame_length, 440) # 0
             THEN E("TypeError", WrapRaises(a.flame_length, 440))
        ELSE IF WrapRaises(a.flame_height, 448) # 0
             THEN E("TypeError", WrapRaises(a.flame_height, 448))
        ELSE IF WrapRaises(a.slope_angle, 456) # 0
             THEN E("TypeError", WrapRaises(a.slope_angle, 456))
        ELSE IF ~IsNumericOrNone(a.slope_units) THEN E("TypeError", 464)
        ELSE IF ~UnitsListed(a.slope_units, {"degrees", "percent"}) THEN E("ValueError", 466)
        ELSE IF WrapRaises(a.wind_speed, 470) # 0
             THEN E("TypeError", WrapRaises(a.wind_speed, 470))
        ELSE IF ~IsNumericOrNone(a.wind_speed_units) THEN E("TypeError", 478)
        ELSE IF ~UnitsListed(a.wind_speed_units, {"kph", "mps", "mph"})
             THEN E("ValueError", 480)
        ELSE E("", 0)

getFlameTilt(a) ==
    LET return_array == \E p \in {"flame_length", "flame_height", "slope_angle", "wind_speed",
                                  "canopy_ht"} : IsNdArray(a[p])
        err   == FlameTiltChecks(a)
        \* the steps executed when 28 / canopy_ht is reached
        steps == IF a.wind_speed_units.s = "kph" THEN <<"wind_speed = wind_speed / 3.6">>
                 ELSE IF a.wind_speed_units.s = "mph" THEN <<"wind_speed = wind_speed / 2.23694">>
                 ELSE <<>>
        tilt_v == CASE a.model.s = "Standard" ->
                        StandardTilt(MaskedOf(a.flame_length), MaskedOf(a.flame_height))
                    [] a.model.s = "Finney" ->
                        FinneyTilt(MaskedOf(a.flame_length), MaskedOf(a.flame_height),
                                   MaskedOf(a.slope_angle), a.slope_units.s)
                    [] OTHER ->
                        ButlerTilt(ButlerWindSpeed(MaskedOf(a.wind_speed), a.wind_speed_units.s),
                                   MaskedOf(a.canopy_ht))
    IN  IF err.line # 0 THEN Raise(err.kind, err.line, <<>>, a)
        \* canopy_ht is never checked: 28 / None raises TypeError
        ELSE IF a.model.s = "Butler" /\ ~IsNumeric(a.canopy_ht)
             THEN Raise("TypeError", 514, steps, a)
        ELSE Return(Returned(NpUnary(degrees, ClampNonNeg(tilt_v)), return_array),
                    IF return_array THEN 528 ELSE 530,
                    (IF a.model.s = "Butler" THEN steps ELSE <<>>) \o <<"tilt_v = formula">>, a)

-----------------------------------------------------------------------------
(* The caller.  The module keeps no state between calls: a behaviour is    *)
(* one call of one function, with arguments drawn from the sets below.     *)

VARIABLES
    fn,              \* the function called, "" before the call
    args,            \* the arguments as the caller passed them
    res,             \* how the call ended (Raise or Return)
    alias_iterable   \* whether the interpreter iterates a types.GenericAlias

vars == <<fn, args, res, alias_iterable>>

\* every ndarray of the model has MaxLen elements
ArraysOver(dt, elems) == {NdArray(dt, s) : s \in [1..MaxLen -> elems]}

WindSpeeds ==
    {PyFloat(20000), PyInt(20), PyStr("20")}
        \cup ArraysOver("float", {El(20000), NaNEl}) \cup ArraysOver("int", {El(20000)})

CanopyCovers ==
    {PyFloat(50000), PyFloat(100000), PyInt(50), None}
        \cup ArraysOver("float", {El(50000), El(100000)})

CanopyHeights ==
    {PyFloat(10000), PyFloat(1000), PyFloat(0), PyInt(10), PyInt(0)}
        \cup ArraysOver("float", {El(10000), El(0)})

CanopyBaseHeights ==
    {PyFloat(2000), PyFloat(0), PyFloat(10000), PyFloat(-20000), PyInt(2)}
        \cup ArraysOver("float", {El(2000), NaNEl})

MidFlameWSArgs ==
    [wind_speed : WindSpeeds, canopy_cover : CanopyCovers, canopy_ht : CanopyHeights,
     canopy_baseht : CanopyBaseHeights,
     units : {PyStr("SI"), PyStr("IMP"), PyStr("XX"), None}]

FlameLengthArgs ==
    [model : {PyStr(m) : m \in DOMAIN model_dict} \cup {PyStr("Bogus"), None},
     fire_intensity : {PyFloat(10000), PyFloat(50000), PyInt(10)}
                        \cup ArraysOver("float", {El(10000)}),
     flame_depth : {None, PyFloat(2000)} \cup ArraysOver("float", {El(2000)}),
     params_only : {PyBool(TRUE), PyBool(FALSE), PyStr("yes")}]

FlameHeightArgs ==
    [model : {PyStr("Nelson"), PyStr("Finney"), PyStr("XX"), None},
     flame_length : {PyFloat(2000), PyFloat(500), PyStr("2")}
                        \cup ArraysOver("float", {El(2000)}),
     fire_type : {None, PyStr("surface"), PyStr("active crown"), PyStr("ground"), PyInt(2)},
     fire_intensity : {None, PyFloat(1000000)},
     midflame_ws : {None, PyFloat(0), PyFloat(2000)},
     flame_tilt : {None, PyFloat(30000)},
     slope_angle : {None, PyFloat(10000), PyFloat(500)},
     slope_units : {None, PyStr("degrees"), PyStr("percent"), PyStr("XX"),
                    StrArray("degrees"), StrArray("XX")}]

FlameTiltArgs ==
    [model : {PyStr("Standard"), PyStr("Finney"), PyStr("Butler"), PyStr("XX")},
     flame_length : {None, PyFloat(2000), PyFloat(1000)},
     flame_height : {None, PyFloat(1000), PyFloat(2000)},
     slope_angle : {None, PyFloat(10000)},
     slope_units : {None, PyStr("degrees"), PyStr("XX"), StrArray("degrees")},
     wind_speed : {None, PyFloat(20000)},
     wind_speed_units : {None, PyStr("kph"), PyStr("XX"), StrArray("kph"), StrArray("mps")},
     canopy_ht : {None, PyFloat(15000)}]

FlameResidenceTimeArgs ==
    [ros : {PyFloat(60000), PyFloat(0), PyInt(60), PyStr("60")}
                \cup ArraysOver("float", {El(60000), El(30000)}),
     fuel_consumption : {PyFloat(2000), PyFloat(16000), None},
     midflame_ws : {PyFloat(1000), PyFloat(2000)} \cup ArraysOver("float", {El(1000), El(0)}),
     units : {PyStr("sec"), PyStr("min"), PyStr("XX"), None}]

FlameDepthArgs ==
    [ros : {PyFloat(5000), PyFloat(-5000), PyNaN, PyInt(5), PyStr("5")}
                \cup ArraysOver("float", {El(5000), NaNEl}),
     res_time : {PyFloat(2000), PyNaN, PyInt(2), None}
                \cup ArraysOver("float", {El(2000), NaNEl})]

Init ==
    /\ fn = ""
    /\ args = <<>>
    /\ res = Raise("", 0, <<>>, <<>>)
    /\ alias_iterable \in BOOLEAN

\* a call happens once, before any other; its end is the behaviour's last state
Call(name, a, r) ==
    /\ fn' = name
    /\ args' = a
    /\ res' = r
    /\ UNCHANGED alias_iterable

CallMidFlameWS ==
    /\ fn = ""
    /\ \E a \in MidFlameWSArgs : Call("getMidFlameWS", a, getMidFlameWS(a))

CallFlameLength ==
    /\ fn = ""
    /\ \E a \in FlameLengthArgs :
            Call("getFlameLength", a, getFlameLength(a, alias_iterable))

CallFlameHeight ==
    /\ fn = ""
    /\ \E a \in FlameHeightArgs : Call("getFlameHeight", a, getFlameHeight(a))

CallFlameTilt ==
    /\ fn = ""
    /\ \E a \in FlameTiltArgs : Call("getFlameTilt", a, getFlameTilt(a))

CallFlameResidenceTime ==
    /\ fn = ""
    /\ \E a \in FlameResidenceTimeArgs :
            Call("getFlameResidenceTime", a, getFlameResidenceTime(a))

CallFlameDepth ==
    /\ fn = ""
    /\ \E a \in FlameDepthArgs : Call("getFlameDepth", a, getFlameDepth(a))

Next ==
    \/ CallMidFlameWS
    \/ CallFlameLength
    \/ CallFlameHeight
    \/ CallFlameTilt
    \/ CallFlameResidenceTime
    \/ CallFlameDepth

Spec == Init /\ [][Next]_vars

-----------------------------------------------------------------------------
(* Properties of getFlameLength *)

\* C1: for every model name that is a key of the catalog, and numeric
\* fire_intensity and flame_depth, getFlameLength with params_only=True
\* returns that model's catalog tuple, and with params_only=False it returns
\* a * fire_intensity^b (divided by flame_depth^c for 'Finney_HEAD') rather
\* than raising an error.
C1_CatalogModelReturns ==
    (/\ fn = "getFlameLength"
     /\ args.model.k = "str"
     /\ args.model.s \in DOMAIN model_dict
     /\ IsNumeric(args.fire_intensity) /\ args.fire_intensity.dt # "str"
     /\ IsNumeric(args.flame_depth) /\ args.flame_depth.dt # "str"
     /\ args.params_only.k = "bool")
        => /\ res.kind = "return"
           /\ args.params_only = PyBool(TRUE) => res.val = ModelParams(args.model.s)
           /\ args.params_only = PyBool(FALSE) =>
                res.val = Returned(FlameLengthFormula(args.model.s,
                                                      MaskedOf(args.fire_intensity),
                                                      MaskedOf(args.flame_depth)),
                                   IsNdArray(args.fire_intensity)
                                       \/ IsNdArray(args.flame_depth))

-----------------------------------------------------------------------------
(* Properties of the units parameters *)

\* a number: an int, a float or a numeric ndarray
IsNumber(x) == IsNumeric(x) /\ x.dt # "str"

\* a units string outside the enumerated set
OutsideUnits(units, allowed) == units.k = "str" /\ units.s \notin allowed

\* C2: every function that takes a units parameter rejects a units string
\* outside its enumerated set with a value error and returns no result: in
\* a call whose model is valid and whose other arguments are all numbers,
\* getMidFlameWS units outside {SI, IMP}, getFlameResidenceTime units outside
\* {sec, min}, getFlameHeight slope_units outside {degrees, percent} and
\* getFlameTilt slope_units outside {degrees, percent} or wind_speed_units
\* outside {kph, mps, mph} end in ValueError.
C2_UnitsOutsideSetRejected ==
    /\ (/\ fn = "getMidFlameWS"
        /\ \A p \in {"wind_speed", "canopy_cover", "canopy_ht", "canopy_baseht"} :
                IsNumber(args[p])
        /\ OutsideUnits(args.units, {"SI", "IMP"}))
            => res.kind = "ValueError"
    /\ (/\ fn = "getFlameResidenceTime"
        /\ \A p \in {"ros", "fuel_consumption", "midflame_ws"} : IsNumber(args[p])
        /\ OutsideUnits(args.units, {"sec", "min"}))
            => res.kind = "ValueError"
    /\ (/\ fn = "getFlameHeight"
        /\ args.model \in {PyStr("Nelson"), PyStr("Finney")}
        /\ \A p \in {"flame_length", "fire_intensity", "midflame_ws", "flame_tilt",
                     "slope_angle"} : IsNumber(args[p])
        /\ args.fire_type \in {PyStr("surface"), PyStr("passive crown"),
                               PyStr("active crown")}
        /\ OutsideUnits(args.slope_units, {"degrees", "percent"}))
            => res.kind = "ValueError"
    /\ (/\ fn = "getFlameTilt"
        /\ args.model \in {PyStr("Standard"), PyStr("Finney"), PyStr("Butler")}
        /\ \A p \in {"flame_length", "flame_height", "slope_angle", "wind_speed",
                     "canopy_ht"} : IsNumber(args[p])
        /\ \/ OutsideUnits(args.slope_units, {"degrees", "percent"})
           \/ OutsideUnits(args.wind_speed_units, {"kph", "mps", "mph"}))
            => res.kind = "ValueError"

-----------------------------------------------------------------------------
(* Properties of getFlameHeight *)

\* every element of x is a number no greater than the matching element of y
NoGreater(x, y) ==
    \A i \in 1..Len(x.e) : ~x.e[i].nan /\ ~At(y, i).nan /\ x.e[i].v <= At(y, i).v

\* C3: getFlameHeight with model 'Nelson', numeric flame_length, a fire type,
\* numeric fire_intensity and midflame_ws, and flame_tilt, slope_angle and
\* slope_units left at their default None, returns a height, and the height
\* returned never exceeds flame_length.
C3_NelsonReturnsCappedHeight ==
    (/\ fn = "getFlameHeight"
     /\ args.model = PyStr("Nelson")
     /\ IsNumber(args.flame_length)
     /\ args.fire_type \in {PyStr("surface"), PyStr("passive crown"), PyStr("active crown")}
     /\ IsNumber(args.fire_intensity) /\ IsNumber(args.midflame_ws)
     /\ IsNone(args.flame_tilt) /\ IsNone(args.slope_angle) /\ IsNone(args.slope_units))
        => /\ res.kind = "return"
           /\ NoGreater(res.val, args.flame_length)

\* C4: getFlameHeight with model 'Finney' and a numeric flame_length raises
\* the value error for a missing required argument (line 273) exactly when
\* at least one of flame_tilt, slope_angle, slope_units is not supplied.
C4_FinneyMissingArgumentError ==
    (fn = "getFlameHeight" /\ args.model = PyStr("Finney") /\ IsNumber(args.flame_length))
        => ((res.kind = "ValueError" /\ res.line = 273)
                <=> \E p \in {"flame_tilt", "slope_angle", "slope_units"} : IsNone(args[p]))

-----------------------------------------------------------------------------
(* Properties of getFlameTilt *)

\* C5: getFlameTilt with model 'Finney', numeric flame_length, flame_height
\* and slope_angle, slope_units 'degrees' or 'percent', and flame_height
\* equal to flame_length, returns a tilt of 0 degrees.
C5_FinneyEqualHeightReturnsZero ==
    (/\ fn = "getFlameTilt"
     /\ args.model = PyStr("Finney")
     /\ IsNumber(args.flame_length) /\ IsNumber(args.flame_height)
     /\ IsNumber(args.slope_angle)
     /\ args.slope_units \in {PyStr("degrees"), PyStr("percent")}
     /\ args.flame_height = args.flame_length)
        => /\ res.kind = "return"
           /\ \A i \in 1..Len(res.val.e) : res.val.e[i] = El(0)

\* the arguments the selected model of getFlameTilt requires
TiltRequired(model) ==
    CASE model = "Standard" -> {"flame_length", "flame_height"}
      [] model = "Finney"   -> {"flame_length", "flame_height", "slope_angle", "slope_units"}
      [] model = "Butler"   -> {"wind_speed", "wind_speed_units", "canopy_ht"}

\* C6: getFlameTilt raises a value error whenever an argument required by
\* the selected model ('Standard', 'Finney' or 'Butler') is missing.
C6_TiltMissingArgumentError ==
    (/\ fn = "getFlameTilt"
     /\ args.model \in {PyStr("Standard"), PyStr("Finney"), PyStr("Butler")}
     /\ \E p \in TiltRequired(args.model.s) : IsNone(args[p]))
        => res.kind = "ValueError"

-----------------------------------------------------------------------------
(* Properties of getMidFlameWS and of the order of errors and arithmetic *)

\* C7: a call to getMidFlameWS that returns a result leaves every array the
\* caller passed (wind_speed, canopy_cover, canopy_ht, canopy_baseht) with
\* the element values it had before the call.
C7_CallerArraysUnchanged ==
    (fn = "getMidFlameWS" /\ res.kind = "return")
        => \A p \in {"wind_speed", "canopy_cover", "canopy_ht", "canopy_baseht"} :
                IsNdArray(args[p]) => res.out[p] = args[p]

\* C8: in each of the six functions a call that ends in an error has
\* executed no unit-conversion or formula step, and has converted no input.
C8_ErrorsBeforeArithmetic ==
    (fn # "" /\ res.kind # "return") => (res.steps = <<>> /\ res.out = args)

-----------------------------------------------------------------------------
(* Properties of getFlameDepth *)

\* C9: getFlameDepth with numeric ros and res_time does not raise; an
\* element whose ros or res_time is NaN yields NaN, whichever of the two is
\* the missing one, and an element with both present is ros * res_time,
\* floored at 0.
C9_MissingInputsYieldMissing ==
    (fn = "getFlameDepth" /\ IsNumber(args.ros) /\ IsNumber(args.res_time))
        => /\ res.kind = "return"
           /\ \A i \in 1..Len(res.val.e) :
                LET ros      == At(args.ros, i)
                    res_time == At(args.res_time, i)
                    product  == FMul(ros.v, res_time.v)
                IN  IF ros.nan \/ res_time.nan THEN res.val.e[i].nan
                    ELSE res.val.e[i] = El(IF product < 0 THEN 0 ELSE product)

-----------------------------------------------------------------------------
(* Cross-unit consistency of getMidFlameWS *)

\* a float argument with every element multiplied by n/d
Scaled(x, n, d) ==
    [x EXCEPT !.e = Elems([i \in 1..Len(x.e) |->
                        IF x.e[i].nan THEN NaNEl ELSE El(MulDiv(x.e[i].v, n, d))])]

\* the 'SI' call for an 'IMP' call: wind speed * 1.60934 * wind_factor (n/d),
\* heights / 3.28084
SICall(a, n, d) ==
    [a EXCEPT !.wind_speed    = Scaled(Scaled(@, 80467, 50000), n, d),
              !.canopy_ht     = Scaled(@, 25000, 82021),
              !.canopy_baseht = Scaled(@, 25000, 82021),
              !.units         = PyStr("SI")]

\* two returned values agree within 1% + 0.005, NaN matching NaN
Close(x, y) ==
    /\ x.k = y.k
    /\ Len(x.e) = Len(y.e)
    /\ \A i \in 1..Len(x.e) :
        /\ x.e[i].nan = y.e[i].nan
        /\ 100 * Abs(x.e[i].v - y.e[i].v) <= 500 + Abs(x.e[i].v) + Abs(y.e[i].v)

\* an 'IMP' call that returned, with float wind speed and heights, a canopy
\* cover in 0..100 and 0 <= canopy_baseht <= canopy_ht wherever present
ImperialCase ==
    /\ fn = "getMidFlameWS"
    /\ args.units = PyStr("IMP")
    /\ res.kind = "return"
    /\ \A p \in {"wind_speed", "canopy_ht", "canopy_baseht"} : args[p].dt = "float"
    /\ \A i \in 1..Len(res.val.e) :
        LET cc  == At(args.canopy_cover, i)
            ht  == At(args.canopy_ht, i)
            cbh == At(args.canopy_baseht, i)
        IN  /\ cc.nan \/ (0 <= cc.v /\ cc.v <= 100000)
            /\ ht.nan \/ cbh.nan \/ (0 <= cbh.v /\ cbh.v <= ht.v)

-----------------------------------------------------------------------------
(* Boundary and input-type properties of getMidFlameWS *)

\* the four numeric arguments of getMidFlameWS
MidFlameNumeric == {"wind_speed", "canopy_cover", "canopy_ht", "canopy_baseht"}

\* C11: getMidFlameWS called with canopy_ht = 0, the other inputs numeric
\* and units 'SI' or 'IMP', does not raise.
C11_ZeroCanopyHeightReturns ==
    (/\ fn = "getMidFlameWS"
     /\ \A p \in MidFlameNumeric : IsNumber(args[p])
     /\ \E i \in 1..Len(args.canopy_ht.e) : args.canopy_ht.e[i] = El(0)
     /\ args.units \in {PyStr("SI"), PyStr("IMP")})
        => res.kind = "return"

-----------------------------------------------------------------------------
(* The value getFlameDepth returns *)

\* no element of x is NaN
NonMissing(x) == \A i \in 1..Len(x.e) : ~x.e[i].nan

\* C12: for non-missing numeric ros and res_time, getFlameDepth returns
\* ros * res_time where that product is >= 0 and 0 where it is negative;
\* getFlameDepth(5, 2) returns exactly 10.
C12_DepthIsClampedProduct ==
    (/\ fn = "getFlameDepth"
     /\ IsNumber(args.ros) /\ NonMissing(args.ros)
     /\ IsNumber(args.res_time) /\ NonMissing(args.res_time))
        => /\ res.kind = "return"
           /\ \A i \in 1..Len(res.val.e) :
                LET product == At(args.ros, i).v * At(args.res_time, i).v
                IN  res.val.e[i] = El(IF product >= 0 THEN product \div 1000 ELSE 0)
           /\ (args.ros = PyInt(5) /\ args.res_time = PyInt(2))
                => res.val.e = <<El(10 * 1000)>>

\* getFlameDepth(5, 2) has returned 10
C12_FiveTimesTwoReturned ==
    /\ fn = "getFlameDepth"
    /\ args.ros = PyInt(5) /\ args.res_time = PyInt(2)
    /\ res.kind = "return"
    /\ res.val.e = <<El(10000)>>

-----------------------------------------------------------------------------
(* The optional flame_depth of getFlameLength *)

\* C13: flame_depth is required only for 'Finney_HEAD': for every other
\* catalog model, getFlameLength(model, fire_intensity) with numeric
\* fire_intensity, flame_depth left at None and params_only False returns a
\* flame length rather than an error.
C13_DepthOptionalOutsideFinney ==
    (/\ fn = "getFlameLength"
     /\ args.model.k = "str"
     /\ args.model.s \in DOMAIN model_dict \ {"Finney_HEAD"}
     /\ IsNumber(args.fire_intensity)
     /\ IsNone(args.flame_depth)
     /\ args.params_only = PyBool(FALSE))
        => /\ res.kind = "return"
           /\ res.val.k \in {"num", "arr"}

-----------------------------------------------------------------------------
(* Integer inputs of getMidFlameWS *)

\* a Python int
IsPyInt(x) == x.k = "num" /\ x.dt = "int"

\* C14: getMidFlameWS accepts integer scalars: a call whose wind_speed,
\* canopy_cover, canopy_ht and canopy_baseht are ints, canopy_ht > 0, with
\* units 'SI' or 'IMP', returns a wind speed; and a call that ends in a type
\* error had a non-numeric input.
C14_IntegerScalarsAccepted ==
    fn = "getMidFlameWS" =>
        /\ (/\ \A p \in MidFlameNumeric : IsPyInt(args[p])
            /\ args.canopy_ht.e[1].v > 0
            /\ args.units \in {PyStr("SI"), PyStr("IMP")})
                => res.kind = "return"
        /\ res.kind = "TypeError"
                => \/ \E p \in MidFlameNumeric : ~IsNumber(args[p])
                   \/ args.units.k # "str"

-----------------------------------------------------------------------------
(* The size of the getFlameLength catalog *)

\* C15 (as amended): the getFlameLength model catalog is a fixed table of
\* exactly 29 named entries, whatever the call of getFlameLength: 28 models
\* of two parameters and the three-parameter 'Finney_HEAD'.
C15_CatalogHasTwentyNineEntries ==
    fn = "getFlameLength" =>
        /\ Cardinality(DOMAIN model_dict) = 29
        /\ Cardinality({m \in DOMAIN model_dict : Len(model_dict[m]) = 2}) = 28
        /\ {m \in DOMAIN model_dict : Len(model_dict[m]) = 3} = {"Finney_HEAD"}

\* a call of getFlameLength naming the last of the 29 entries of the catalog
C15_CatalogConsulted ==
    /\ fn = "getFlameLength"
    /\ args.model = PyStr("Finney_HEAD")
    /\ args.model.s \in DOMAIN model_dict
    /\ Cardinality(DOMAIN model_dict \ {args.model.s}) = 28

\* C15 (as stated): the getFlameLength model catalog is a fixed table of
\* exactly 28 named entries, whatever the call of getFlameLength.
C15_CatalogHasTwentyEightEntries ==
    fn = "getFlameLength" => Cardinality(DOMAIN model_dict) = 28

-----------------------------------------------------------------------------
(* The sheltering factor of getMidFlameWS on physical canopies *)

\* every element has canopy_cover in [0, 100], canopy_ht > 0 and
\* 0 <= canopy_baseht <= canopy_ht
PhysicalCanopy(a) ==
    \A p \in {"canopy_cover", "canopy_ht", "canopy_baseht"} :
        /\ IsNumber(a[p]) /\ NonMissing(a[p])
        /\ \A i \in 1..Len(a[p].e) :
            LET cc  == At(a.canopy_cover, i).v
                ht  == At(a.canopy_ht, i).v
                cbh == At(a.canopy_baseht, i).v
            IN  0 <= cc /\ cc <= 100000 /\ ht > 0 /\ 0 <= cbh /\ cbh <= ht

\* the converted inputs of a call that reached the formula
Converted(a) ==
    ConvertUnits(a.units.s, MaskedOf(a.wind_speed), MaskedOf(a.canopy_ht),
                 MaskedOf(a.canopy_baseht))

=============================================================================
